---- MODULE Spec2Model ----
(***************************************************************************)
(* Model of chainer/datasets/pickle_dataset.py: PickleDatasetWriter        *)
(* appends pickled records to a byte stream and remembers their offsets;   *)
(* PickleDataset scans the stream once to rebuild the offsets and then     *)
(* serves get_example(index) by seek + pickle.load under an RLock.         *)
(*                                                                         *)
(* The writer's stream and the reader's stream are two handles over the    *)
(* same file contents `data`.  The writer's handle buffers (`wbuf`) until  *)
(* flush/close; the reader's handle has the cursor `pos`.                  *)
(***************************************************************************)
EXTENDS Integers, Sequences, FiniteSets, TLC

\* ------------------------------------------------------------------ bounds
MaxRecords == 2      \* successful write calls per stream
MaxCloses == 2       \* close() invocations per object
MaxInitPos == 4      \* initial cursor of the stream handed to the reader
MaxFaults == 1       \* write() calls that fail inside the stream's write
MaxCut == 2          \* bytes a file in use loses at its end

Threads == {1, 2}    \* concurrent callers of get_example

\* ------------------------------------------------- the codec: pickle bytes
\* Opcode bytes of the pickle virtual machine (protocol 2 subset).
PROTO == 128
BININT1 == 75
EMPTY_TUPLE == 41
TUPLE1 == 133
TUPLE2 == 134
BINPUT == 113
STOP == 46
Protocol == 2
HIGHEST_PROTOCOL == 5

\* Python values, uniformly tagged so that any two of them can be compared.
PyNone == [tag |-> "none", n |-> 0, items |-> <<>>]
PyInt(k) == [tag |-> "int", n |-> k, items |-> <<>>]
PyTuple(s) == [tag |-> "tuple", n |-> 0, items |-> s]
PyLambda == [tag |-> "lambda", n |-> 0, items |-> <<>>]

\* The values handed to write(): an int, the empty tuple, a 1-tuple whose
\* element has the same byte as the STOP opcode, and an unpicklable object.
Picklables == {PyInt(1), PyTuple(<<>>), PyTuple(<<PyInt(STOP)>>)}
Values == Picklables \cup {PyLambda}

Picklable(x) == x.tag \in {"int", "tuple"}

\* pickle.dumps(x, protocol=2) without the PROTO header and the STOP.
RECURSIVE save(_)
save(x) ==
    IF x.tag = "int" THEN <<BININT1, x.n>>
    ELSE LET k == Len(x.items) IN
         IF k = 0 THEN <<EMPTY_TUPLE>>
         ELSE IF k = 1 THEN save(x.items[1]) \o <<TUPLE1, BINPUT, 0>>
         ELSE save(x.items[1]) \o save(x.items[2]) \o <<TUPLE2, BINPUT, 0>>

\* The bytes pickle.dump(x, writer, protocol) appends for one record.
Dumps(x) == <<PROTO, Protocol>> \o save(x) \o <<STOP>>

Result(kind, value, p) == [kind |-> kind, value |-> value, pos |-> p]

\* pickle.load(reader) with the cursor at p: the unpickler's opcode loop.
\* Running out of input while reading an OPCODE raises EOFError; running out
\* while reading an opcode's ARGUMENT raises UnpicklingError ("pickle data
\* was truncated").  The result carries the cursor after the call.
RECURSIVE load(_, _, _)
load(d, p, stack) ==
    IF p >= Len(d) THEN Result("EOFError", PyNone, p)
    ELSE LET op == d[p + 1]
             n == Len(stack)
             short == p + 1 >= Len(d)
         IN
         IF op = PROTO THEN
             IF short THEN Result("UnpicklingError", PyNone, p + 1)
             ELSE IF d[p + 2] > HIGHEST_PROTOCOL
                  THEN Result("ValueError", PyNone, p + 2)
                  ELSE load(d, p + 2, stack)
         ELSE IF op = BININT1 THEN
             IF short THEN Result("UnpicklingError", PyNone, p + 1)
             ELSE load(d, p + 2, Append(stack, PyInt(d[p + 2])))
         ELSE IF op = EMPTY_TUPLE THEN
             load(d, p + 1, Append(stack, PyTuple(<<>>)))
         ELSE IF op = TUPLE1 THEN
             IF n < 1 THEN Result("UnpicklingError", PyNone, p + 1)
             ELSE load(d, p + 1,
                       Append(SubSeq(stack, 1, n - 1), PyTuple(<<stack[n]>>)))
         ELSE IF op = TUPLE2 THEN
             IF n < 2 THEN Result("UnpicklingError", PyNone, p + 1)
             ELSE load(d, p + 1,
                       Append(SubSeq(stack, 1, n - 2),
                              PyTuple(<<stack[n - 1], stack[n]>>)))
         ELSE IF op = BINPUT THEN
             IF short \/ n < 1 THEN Result("UnpicklingError", PyNone, p + 1)
             ELSE load(d, p + 2, stack)
         ELSE IF op = STOP THEN
             IF n < 1 THEN Result("UnpicklingError", PyNone, p + 1)
             ELSE Result("ok", stack[n], p + 1)
         ELSE Result("UnpicklingError", PyNone, p + 1)

Load(d, p) == load(d, p, <<>>)

\* ------------------------------------------------------------------- state
VARIABLES
    data,           \* bytes of the file, as a reader sees them
    wbuf,           \* bytes written through the writer's stream, not flushed
    wclosed,        \* the writer's stream is closed
    wstreamCloses,  \* close() calls received by the writer's stream
    wcloseInv,      \* PickleDatasetWriter.close() invocations
    wpositions,     \* PickleDatasetWriter.positions
    written,        \* values of the write() calls that returned normally
    werr,           \* outcome of the last write()/flush() call
    wscope,         \* the with-block holding the writer: "in" | "exited"
    wraised,        \* the body of the with-block raised
    wexit,          \* what the with statement did: "none"|"normal"|"raised"
    truncated,      \* the file was cut short after the writer finished
    seekable,       \* reader.seekable()
    pos,            \* cursor of the reader's stream
    touched,        \* seek, tell or read was called on the reader's stream
    rclosed,        \* the reader's stream is closed
    rstreamCloses,  \* close() calls received by the reader's stream
    rcloseInv,      \* PickleDataset.close() invocations
    rstate,         \* "uninit" | "scanning" | "ready" | "failed" | "closed"
    rerr,           \* the exception PickleDataset.__init__ / close() raised
    rscope,         \* the with-block holding the reader: "in" | "exited"
    rexit,          \* what the reader's with statement did
    positions,      \* PickleDataset.positions
    lock,           \* owner of PickleDataset._lock, 0 when free
    pc,             \* per caller: "idle" | "acquire" | "seek" | "load"
    idx,            \* per caller: the index of its current / last call
    ret,            \* per caller: outcome of its last get_example
    wfaults,        \* write() calls that failed inside the stream's write
    hstate,         \* open_pickle_dataset: "none" (not used) | "open" |
                    \* "raised" (it re-raised the construction error)
    herr,           \* the exception open_pickle_dataset let out
    hswallowed,     \* the cleanup close raised and was discarded
    lenret          \* outcome of the last len() call, NoLen before any

wvars == <<wbuf, wclosed, wstreamCloses, wcloseInv, wpositions, written,
           werr, wscope, wraised, wexit>>
rvars == <<seekable, pos, touched, rclosed, rstreamCloses, rcloseInv, rstate,
           rerr, rscope, rexit, positions>>
tvars == <<lock, pc, idx, ret>>
nvars == <<wfaults, hstate, herr, hswallowed, lenret>>
vars == <<data, truncated, wvars, rvars, tvars, nvars>>

NoRet == [kind |-> "none", value |-> PyNone]
NoLen == [called |-> FALSE, value |-> 0, locked |-> FALSE]

Init ==
    /\ data = <<>>
    /\ wbuf = <<>>
    /\ wclosed = FALSE
    /\ wstreamCloses = 0
    /\ wcloseInv = 0
    /\ wpositions = <<>>
    /\ written = <<>>
    /\ werr = "none"
    /\ wscope = "in"
    /\ wraised = FALSE
    /\ wexit = "none"
    /\ truncated = FALSE
    /\ seekable \in BOOLEAN
    /\ pos \in 0..MaxInitPos
    /\ touched = FALSE
    /\ rclosed = FALSE
    /\ rstreamCloses = 0
    /\ rcloseInv = 0
    /\ rstate = "uninit"
    /\ rerr = "none"
    /\ rscope = "in"
    /\ rexit = "none"
    /\ positions = <<>>
    /\ lock = 0
    /\ pc = [t \in Threads |-> "idle"]
    /\ idx = [t \in Threads |-> 0]
    /\ ret = [t \in Threads |-> NoRet]
    /\ wfaults = 0
    /\ hstate \in {"none", "open"}
    /\ hstate = "open" => pos = 0   \* a file just opened by the helper
    /\ herr = "none"
    /\ hswallowed = FALSE
    /\ lenret = NoLen

\* ------------------------------------------------------------------ writer
\* The writer owns the stream until a reader is built over it.
Writing == rstate = "uninit" /\ ~truncated

\* (variant: tell() reports only what has reached the file)
WTellFlushed == Len(data)

\* writer.tell(): the end of what was written through this handle.
WTell == Len(data) + Len(wbuf)

\* PickleDatasetWriter.write(x)
Write(x) ==
    /\ Writing
    /\ wscope = "in"
    /\ IF wclosed
       THEN \* writer.tell() raises ValueError on a closed stream
            /\ werr' = "ValueError"
            /\ UNCHANGED <<wbuf, wpositions, written>>
       ELSE IF ~Picklable(x)
       THEN \* pickle.dump raises before any byte reaches the stream
            /\ werr' = "PicklingError"
            /\ UNCHANGED <<wbuf, wpositions, written>>
       ELSE /\ Len(wpositions) < MaxRecords
            /\ wbuf' = wbuf \o Dumps(x)
            /\ wpositions' = Append(wpositions, WTell)
            /\ written' = Append(written, x)
            /\ werr' = "none"
    /\ UNCHANGED <<data, truncated, wclosed, wstreamCloses, wcloseInv,
                   wscope, wraised, wexit, rvars, tvars>>
    /\ UNCHANGED nvars

\* (variant: the offset is appended before pickle.dump is attempted)
WriteIOErrorAppendsFirst(x, k) ==
    /\ Writing
    /\ wscope = "in"
    /\ ~wclosed
    /\ Picklable(x)
    /\ wfaults < MaxFaults
    /\ k \in 0..(Len(Dumps(x)) - 1)
    /\ wpositions' = Append(wpositions, WTell)
    /\ wbuf' = wbuf \o SubSeq(Dumps(x), 1, k)
    /\ werr' = "IOError"
    /\ wfaults' = wfaults + 1
    /\ UNCHANGED <<data, truncated, wclosed, wstreamCloses, wcloseInv,
                   written, wscope, wraised, wexit, rvars, tvars,
                   hstate, herr, hswallowed, lenret>>

\* PickleDatasetWriter.write(x) when the stream's write raises during
\* pickle.dump, after k bytes of the record were taken: the IOError leaves
\* write() before `self.positions.append(position)`.
WriteIOError(x, k) ==
    /\ Writing
    /\ wscope = "in"
    /\ ~wclosed
    /\ Picklable(x)
    /\ wfaults < MaxFaults
    /\ k \in 0..(Len(Dumps(x)) - 1)
    /\ wbuf' = wbuf \o SubSeq(Dumps(x), 1, k)
    /\ werr' = "IOError"
    /\ wfaults' = wfaults + 1
    /\ UNCHANGED <<data, truncated, wclosed, wstreamCloses, wcloseInv,
                   wpositions, written, wscope, wraised, wexit, rvars, tvars,
                   hstate, herr, hswallowed, lenret>>

\* PickleDatasetWriter.flush()
Flush ==
    /\ Writing
    /\ wscope = "in"
    /\ IF wclosed
       THEN /\ werr' = "ValueError"
            /\ UNCHANGED <<data, wbuf>>
       ELSE /\ data' = data \o wbuf
            /\ wbuf' = <<>>
            /\ werr' = "none"
    /\ UNCHANGED <<truncated, wclosed, wstreamCloses, wcloseInv, wpositions,
                   written, wscope, wraised, wexit, rvars, tvars>>
    /\ UNCHANGED nvars

\* PickleDatasetWriter.close(): one close call on the stream, which flushes.
WriterCloseEffect ==
    /\ wcloseInv' = wcloseInv + 1
    /\ wstreamCloses' = wstreamCloses + 1
    /\ data' = data \o wbuf
    /\ wbuf' = <<>>
    /\ wclosed' = TRUE

WriterClose ==
    /\ Writing
    /\ wscope = "in"
    /\ wcloseInv < MaxCloses
    /\ WriterCloseEffect
    /\ UNCHANGED <<truncated, wpositions, written, werr, wscope, wraised,
                   wexit, rvars, tvars>>
    /\ UNCHANGED nvars

\* (variant: __exit__ returns a true value and swallows the exception)
WriterExitSwallows == TRUE

\* __exit__ returns None: an exception raised in the body is not suppressed.
WriterExitSuppresses == FALSE

\* PickleDatasetWriter.__exit__: leaving the with-block, the body having
\* raised (exc) or not.
WriterExit(exc) ==
    /\ Writing
    /\ wscope = "in"
    /\ WriterCloseEffect
    /\ wscope' = "exited"
    /\ wraised' = exc
    /\ wexit' = IF exc /\ ~WriterExitSuppresses THEN "raised" ELSE "normal"
    /\ UNCHANGED <<truncated, wpositions, written, werr, rvars, tvars>>
    /\ UNCHANGED nvars

\* The file is cut short before it is handed to a reader.
Truncate(k) ==
    /\ rstate = "uninit"
    /\ ~truncated
    /\ wclosed
    /\ k \in 0..(Len(data) - 1)
    /\ data' = SubSeq(data, 1, k)
    /\ truncated' = TRUE
    /\ UNCHANGED <<wvars, rvars, tvars>>
    /\ UNCHANGED nvars

\* ------------------------------------------------------------------ reader
\* (variant: the seek(0) is missing, the scan starts at the current cursor)
ReaderInitNoSeek ==
    /\ rstate = "uninit"
    /\ wbuf = <<>>
    /\ IF ~seekable
       THEN /\ rerr' = "ValueError"
            /\ rstate' = "failed"
            /\ UNCHANGED <<pos, touched, positions>>
       ELSE /\ positions' = <<>>
            /\ rstate' = "scanning"
            /\ UNCHANGED <<pos, touched, rerr>>
    /\ UNCHANGED <<data, truncated, wvars, seekable, rclosed, rstreamCloses,
                   rcloseInv, rscope, rexit, tvars>>
    /\ UNCHANGED nvars

\* (variant: seek(0) is issued before the seekable() test)
ReaderInitSeekFirst ==
    /\ rstate = "uninit"
    /\ wbuf = <<>>
    /\ pos' = 0
    /\ touched' = TRUE
    /\ IF ~seekable
       THEN /\ rerr' = "ValueError"
            /\ rstate' = "failed"
            /\ UNCHANGED positions
       ELSE /\ positions' = <<>>
            /\ rstate' = "scanning"
            /\ UNCHANGED rerr
    /\ UNCHANGED <<data, truncated, wvars, seekable, rclosed, rstreamCloses,
                   rcloseInv, rscope, rexit, tvars>>
    /\ UNCHANGED nvars

\* PickleDataset.__init__, up to the scan loop: the seekable() test, then
\* seek(0).  The stream is handed over once nothing is pending in the
\* writer's buffer.
ReaderInit ==
    /\ rstate = "uninit"
    /\ wbuf = <<>>
    /\ IF ~seekable
       THEN /\ rerr' = "ValueError"
            /\ rstate' = "failed"
            /\ UNCHANGED <<pos, touched, positions>>
       ELSE /\ positions' = <<>>
            /\ pos' = 0
            /\ touched' = TRUE
            /\ rstate' = "scanning"
            /\ UNCHANGED rerr
    /\ UNCHANGED <<data, truncated, wvars, seekable, rclosed, rstreamCloses,
                   rcloseInv, rscope, rexit, tvars>>
    /\ UNCHANGED nvars

\* The exception class that ends the scan loop normally.
ScanStops(kind) == kind = "EOFError"

\* (variant: the offset is taken after the load)
ScanTellAfter(d, p) == Load(d, p).pos

\* `position = reader.tell()`, taken before the load moves the cursor.
ScanTell(d, p) == p

\* (variant: the append sits outside the try, the EOF iteration appends too)
ScanAppendsAlways(kind) == TRUE

\* `self.positions.append(position)` is reached only when load returned.
ScanAppends(kind) == kind = "ok"

\* (variant: `except EOFError: continue`, the loop tries the load again)
ScanStepRetries ==
    /\ rstate = "scanning"
    /\ LET position == pos
           r == Load(data, pos)
       IN /\ pos' = r.pos
          /\ positions' = IF r.kind = "ok"
                          THEN Append(positions, position)
                          ELSE positions
          /\ IF r.kind \in {"ok", "EOFError"}
             THEN UNCHANGED <<rstate, rerr, lock>>
             ELSE /\ rstate' = "failed"
                  /\ rerr' = r.kind
                  /\ UNCHANGED lock
    /\ UNCHANGED <<data, truncated, wvars, seekable, touched, rclosed,
                   rstreamCloses, rcloseInv, rscope, rexit, pc, idx, ret>>
    /\ UNCHANGED nvars

\* One iteration of the scan loop: tell, pickle.load, then append, break
\* (which finishes __init__ by creating the lock) or let the error out.
ScanStep ==
    /\ rstate = "scanning"
    /\ LET position == ScanTell(data, pos)
           r == Load(data, pos)
       IN /\ pos' = r.pos
          /\ positions' = IF ScanAppends(r.kind)
                          THEN Append(positions, position)
                          ELSE positions
          /\ IF r.kind = "ok"
             THEN UNCHANGED <<rstate, rerr, lock>>
             ELSE IF ScanStops(r.kind)
             THEN /\ rstate' = "ready"
                  /\ lock' = 0
                  /\ UNCHANGED rerr
             ELSE /\ rstate' = "failed"
                  /\ rerr' = r.kind
                  /\ UNCHANGED lock
    /\ UNCHANGED <<data, truncated, wvars, seekable, touched, rclosed,
                   rstreamCloses, rcloseInv, rscope, rexit, pc, idx, ret>>
    /\ UNCHANGED nvars

\* (variant: an error of the cleanup close replaces the constructor's)
CleanupErrorMasks(orig, closeFails) == IF closeFails THEN "IOError" ELSE orig

\* `except Exception: pass` around reader.close(), then a bare `raise`: the
\* exception that leaves open_pickle_dataset is the constructor's.
CleanupError(orig, closeFails) == orig

\* open_pickle_dataset, the handler of a failed PickleDataset(reader): close
\* the file it opened (the close itself may raise), then re-raise.  A close
\* that raised may or may not have released the handle.
HelperCleanup(closeFails) ==
    /\ hstate = "open"
    /\ rstate = "failed"
    /\ rstreamCloses' = rstreamCloses + 1
    /\ rclosed' \in (IF closeFails THEN BOOLEAN ELSE {TRUE})
    /\ hswallowed' = closeFails
    /\ herr' = CleanupError(rerr, closeFails)
    /\ hstate' = "raised"
    /\ UNCHANGED <<data, truncated, wvars, seekable, pos, touched, rcloseInv,
                   rstate, rerr, rscope, rexit, positions, tvars, wfaults,
                   lenret>>

\* PickleDataset.__len__
ReaderLen == Len(positions)

\* `self._lock()`: an RLock object is not callable.
RLockCallable == FALSE

\* PickleDataset.close(): `with self._lock():` calls the lock object, which
\* raises TypeError before reader.close() is reached.
ReaderCloseEffect ==
    /\ rcloseInv' = rcloseInv + 1
    /\ IF RLockCallable
       THEN /\ rclosed' = TRUE
            /\ rstreamCloses' = rstreamCloses + 1
            /\ rstate' = "closed"
            /\ UNCHANGED rerr
       ELSE /\ rerr' = "TypeError"
            /\ UNCHANGED <<rclosed, rstreamCloses, rstate>>

ReaderClose ==
    /\ rstate = "ready"
    /\ rscope = "in"
    /\ rcloseInv < MaxCloses
    /\ ReaderCloseEffect
    /\ UNCHANGED <<data, truncated, wvars, seekable, pos, touched, rscope,
                   rexit, positions, tvars>>
    /\ UNCHANGED nvars

\* PickleDataset.__exit__: leaving the with-block, the body having raised
\* (exc) or not; an exception raised by close() leaves the with statement.
ReaderExit(exc) ==
    /\ rstate = "ready"
    /\ rscope = "in"
    /\ ReaderCloseEffect
    /\ rscope' = "exited"
    /\ rexit' = IF exc \/ rerr' = "TypeError" THEN "raised" ELSE "normal"
    /\ UNCHANGED <<data, truncated, wvars, seekable, pos, touched, positions,
                   tvars>>
    /\ UNCHANGED nvars

\* ------------------------------------------------------------ get_example
Indices == (0 - (MaxRecords + 1))..MaxRecords

\* (variant: an explicit check that rejects negative indices)
PyIndexOkStrict(n, i) == 0 <= i /\ i < n

\* Python list indexing, self.positions[index]: negative indices count from
\* the end; anything outside [-n, n) raises IndexError.
PyIndexOk(n, i) == (0 - n) <= i /\ i < n
PyIndexNorm(n, i) == IF i < 0 THEN i + n ELSE i

\* (variant: no seek, the load starts wherever the cursor was left)
SeekTargetNoSeek(i) == pos

\* The offset get_example seeks to: self.positions[index].
SeekTarget(i) == positions[PyIndexNorm(Len(positions), i) + 1]

\* (variant: no mutual exclusion)
LockFreeAlways(t) == TRUE

\* threading.RLock: free, or already owned by the acquiring thread.
LockFree(t) == lock = 0 \/ lock = t

\* A caller enters get_example(i).
GetCall(t, i) ==
    /\ rstate = "ready"
    /\ pc[t] = "idle"
    /\ pc' = [pc EXCEPT ![t] = "acquire"]
    /\ idx' = [idx EXCEPT ![t] = i]
    /\ ret' = [ret EXCEPT ![t] = NoRet]
    /\ UNCHANGED <<data, truncated, wvars, rvars, lock>>
    /\ UNCHANGED nvars

\* `with self._lock:` acquires.
GetAcquire(t) ==
    /\ pc[t] = "acquire"
    /\ LockFree(t)
    /\ lock' = t
    /\ pc' = [pc EXCEPT ![t] = "seek"]
    /\ UNCHANGED <<data, truncated, wvars, rvars, idx, ret>>
    /\ UNCHANGED nvars

\* (variant: acquire()/release() without try/finally: an exception skips
\* the release)
LockAfterNoFinally(t, kind) == IF kind = "ok" THEN 0 ELSE t

\* The owner of the lock once `with self._lock:` is left with outcome kind:
\* the with statement releases on return and on any exception.
LockAfter(t, kind) == 0

Raised(kind) == [kind |-> kind, value |-> PyNone]

\* self.reader.seek(self.positions[index]); an IndexError of the list or a
\* ValueError of a closed stream leaves the with statement.
GetSeek(t) ==
    /\ pc[t] = "seek"
    /\ IF ~PyIndexOk(Len(positions), idx[t])
       THEN /\ ret' = [ret EXCEPT ![t] = Raised("IndexError")]
            /\ lock' = LockAfter(t, "IndexError")
            /\ pc' = [pc EXCEPT ![t] = "idle"]
            /\ UNCHANGED <<pos, touched>>
       ELSE IF rclosed
       THEN /\ ret' = [ret EXCEPT ![t] = Raised("ValueError")]
            /\ lock' = LockAfter(t, "ValueError")
            /\ pc' = [pc EXCEPT ![t] = "idle"]
            /\ UNCHANGED <<pos, touched>>
       ELSE /\ pos' = SeekTarget(idx[t])
            /\ touched' = TRUE
            /\ pc' = [pc EXCEPT ![t] = "load"]
            /\ UNCHANGED <<lock, ret>>
    /\ UNCHANGED <<data, truncated, wvars, seekable, rclosed, rstreamCloses,
                   rcloseInv, rstate, rerr, rscope, rexit, positions, idx>>
    /\ UNCHANGED nvars

\* (variant: the load also records the cursor it stopped at in the index)
GetLoadRecords(t) ==
    /\ pc[t] = "load"
    /\ LET r == Load(data, pos)
       IN /\ pos' = r.pos
          /\ positions' = Append(positions, r.pos)
          /\ ret' = [ret EXCEPT ![t] = [kind |-> r.kind, value |-> r.value]]
    /\ lock' = 0
    /\ pc' = [pc EXCEPT ![t] = "idle"]
    /\ UNCHANGED <<data, truncated, wvars, seekable, touched, rclosed,
                   rstreamCloses, rcloseInv, rstate, rerr, rscope, rexit,
                   idx>>
    /\ UNCHANGED nvars

\* return pickle.load(self.reader); leaving the with statement releases.
GetLoad(t) ==
    /\ pc[t] = "load"
    /\ LET r == IF rclosed THEN Result("ValueError", PyNone, pos)
                           ELSE Load(data, pos)
       IN /\ pos' = r.pos
          /\ ret' = [ret EXCEPT ![t] = [kind |-> r.kind, value |-> r.value]]
          /\ lock' = LockAfter(t, r.kind)
    /\ pc' = [pc EXCEPT ![t] = "idle"]
    /\ UNCHANGED <<data, truncated, wvars, seekable, touched, rclosed,
                   rstreamCloses, rcloseInv, rstate, rerr, rscope, rexit,
                   positions, idx>>
    /\ UNCHANGED nvars

\* The file is cut short while a reader serves it.
Corrupt(k) ==
    /\ rstate = "ready"
    /\ ~truncated
    /\ k \in 0..(Len(data) - 1)
    /\ data' = SubSeq(data, 1, k)
    /\ truncated' = TRUE
    /\ UNCHANGED <<wvars, rvars, tvars, nvars>>

\* The owner of the stream closes it behind the reader's back.
StreamClose ==
    /\ rstate = "ready"
    /\ ~rclosed
    /\ rclosed' = TRUE
    /\ rstreamCloses' = rstreamCloses + 1
    /\ UNCHANGED <<data, truncated, wvars, seekable, pos, touched, rcloseInv,
                   rstate, rerr, rscope, rexit, positions, tvars, nvars>>

\* (variant: __len__ takes the reader's lock like get_example does)
LenEntersLocked == lock = 0

\* __len__ has no `with self._lock`: it runs whoever holds the lock.
LenEnters == TRUE

\* A caller's len(dataset), one step; `locked` notes whether some caller of
\* get_example held the lock at that moment.
ReaderLenCall ==
    /\ rstate = "ready"
    /\ LenEnters
    /\ lenret' = [called |-> TRUE, value |-> ReaderLen, locked |-> lock # 0]
    /\ UNCHANGED <<data, truncated, wvars, rvars, tvars, wfaults, hstate,
                   herr, hswallowed>>

\* ----------------------------------------------------------- specification
\* The writer's session.
NextWriter ==
    \/ \E x \in Values : Write(x)
    \/ Flush
    \/ WriterClose
    \/ \E exc \in BOOLEAN : WriterExit(exc)

\* Handing the file to a reader: construction, close, scoped use.
NextReader ==
    \/ \E k \in 0..(Len(data) - 1) : Truncate(k)
    \/ ReaderInit
    \/ ScanStep
    \/ \E closeFails \in BOOLEAN : HelperCleanup(closeFails)
    \/ ReaderClose
    \/ \E exc \in BOOLEAN : ReaderExit(exc)

\* Callers of get_example.
NextGet ==
    \/ \E t \in Threads, i \in Indices : GetCall(t, i)
    \/ \E t \in Threads : GetAcquire(t)
    \/ \E t \in Threads : GetSeek(t)
    \/ \E t \in Threads : GetLoad(t)
    \/ ReaderLenCall

\* A write that fails inside the stream, leaving part of a record behind.
NextFault == \E x \in Picklables, k \in 0..7 : WriteIOError(x, k)

\* What the environment does to a stream in use.
NextEnv ==
    \/ \E k \in (Len(data) - MaxCut)..(Len(data) - 1) : Corrupt(k)
    \/ StreamClose

Next == NextWriter \/ NextFault \/ NextReader \/ NextGet \/ NextEnv

\* The whole system.  Its state space is the product of the writer's
\* history, the reader's close history and the callers' positions; the
\* properties below are checked on its projections: SpecLife and SpecRead
\* (streams no write failed on), SpecWriter (a writer session with failing
\* writes) and their fair versions.
Spec == Init /\ [][Next]_vars

\* The life cycle of the two objects, without callers of get_example.
NextLife == NextWriter \/ NextReader

SpecLife == Init /\ [][NextLife]_vars

\* A seekable stream at offset 0, handed to PickleDataset directly.
InitDirect == Init /\ hstate = "none" /\ seekable /\ pos = 0

\* The writer's session alone, stream failures included.
NextWriterFaulty == NextWriter \/ NextFault

SpecWriter == InitDirect /\ [][NextWriterFaulty]_vars

\* Concurrent reads of streams built by a writer session in which every
\* write succeeds and the with-block is left normally.
NextRead ==
    \/ \E x \in Picklables : Write(x)
    \/ WriterExit(FALSE)
    \/ ReaderInit
    \/ ScanStep
    \/ \E closeFails \in BOOLEAN : HelperCleanup(closeFails)
    \/ NextGet

SpecRead == Init /\ [][NextRead]_vars

\* Reads of a stream that may be cut or closed under the reader, with the
\* scheduling the callers rely on: a caller that holds the lock keeps
\* running (weak fairness of its seek and load), and a caller waiting for
\* the lock gets it if it is free again and again (strong fairness).
NextReadEnv ==
    \/ \E x \in Picklables : Write(x)
    \/ WriterExit(FALSE)
    \/ ReaderInit
    \/ ScanStep
    \/ \E t \in Threads, i \in 0..MaxRecords : GetCall(t, i)
    \/ \E t \in Threads : GetAcquire(t)
    \/ \E t \in Threads : GetSeek(t)
    \/ \E t \in Threads : GetLoad(t)
    \/ NextEnv

FairReads ==
    \A t \in Threads :
        /\ SF_vars(GetAcquire(t))
        /\ WF_vars(GetSeek(t))
        /\ WF_vars(GetLoad(t))

SpecReadFair == InitDirect /\ [][NextReadEnv]_vars /\ FairReads

\* The life cycle with a constructor that keeps running once started.
SpecLifeFair == Init /\ [][NextLife]_vars /\ WF_vars(ScanStep)

\* ------------------------------------------------------------- properties
\* A caller's get_example has returned or raised.
Done(t) == rstate = "ready" /\ pc[t] = "idle" /\ ret[t].kind # "none"

InRange(i) == 0 <= i /\ i < Len(positions)

Ok(v) == [kind |-> "ok", value |-> v]

\* C1 - Round trip: over a stream built by successful writes, get(i) returns
\* exactly the i-th written value for every i in 0..n-1, whatever the order
\* of the calls and wherever the cursor was left.
RoundTrip ==
    \A t \in Threads :
        (Done(t) /\ ~truncated /\ idx[t] \in 0..(Len(written) - 1))
            => ret[t] = Ok(written[idx[t] + 1])

\* Two different records read back in reverse order.
RoundTripWitness ==
    /\ Len(written) = 2
    /\ written[1] # written[2]
    /\ Done(1) /\ idx[1] = 1 /\ ret[1] = Ok(written[2])
    /\ Done(2) /\ idx[2] = 0 /\ ret[2] = Ok(written[1])

\* C2 - Length invariant: a reader built over a stream of n successful
\* writes reports len() = n = length of its offset index, in every state
\* after construction.
LengthInvariant ==
    (rstate \in {"ready", "closed"} /\ ~truncated)
        => (ReaderLen = Len(written) /\ Len(positions) = Len(written))

LengthWitness ==
    rstate = "ready" /\ ~truncated /\ Len(written) = 2 /\ ReaderLen = 2

\* C3 - Concurrent reads: at most one caller is between seek and
\* decode-complete, that caller owns the lock, the cursor it decodes from is
\* the offset of the index it asked for, and the value it gets is that
\* record's.
ConcurrentReads ==
    /\ \A s, t \in Threads :
           (s # t /\ pc[s] \in {"seek", "load"}) => pc[t] \notin {"seek", "load"}
    /\ \A t \in Threads :
           /\ pc[t] \in {"seek", "load"} => lock = t
           /\ pc[t] = "load" =>
                  pos = positions[(IF idx[t] < 0 THEN idx[t] + Len(positions)
                                                 ELSE idx[t]) + 1]
           /\ (Done(t) /\ ret[t].kind = "ok" /\ ~truncated) =>
                  ret[t].value = written[(IF idx[t] < 0
                                          THEN idx[t] + Len(written)
                                          ELSE idx[t]) + 1]

\* One caller is about to decode while another waits for the lock.
ConcurrentReadsWitness ==
    /\ pc[1] = "load" /\ pc[2] = "acquire" /\ idx[1] # idx[2]
    /\ Len(positions) = 2

\* C4 (as stated) - Bounds: get(i) succeeds only for i in [0, n) and fails
\* with an out-of-range error for every other integer, get(-1) included.
BoundsStrict ==
    \A t \in Threads :
        Done(t) => /\ (ret[t].kind = "ok") = InRange(idx[t])
                   /\ ~InRange(idx[t]) => ret[t].kind = "IndexError"

\* C4 (amended) - Bounds: get(i) succeeds exactly for i in [-n, n), a
\* negative i returning record n + i; every other integer, get(n) included,
\* fails with an out-of-range error.
BoundsPython ==
    \A t \in Threads :
        Done(t) =>
            LET n == Len(positions)
                inside == (0 - n) <= idx[t] /\ idx[t] < n
            IN /\ (ret[t].kind = "ok") = inside
               /\ ~inside => ret[t].kind = "IndexError"
               /\ (inside /\ idx[t] < 0 /\ ~truncated)
                      => ret[t] = Ok(written[n + idx[t] + 1])

\* get(-1) returned the last record and get(n) raised.
BoundsWitness ==
    /\ Len(positions) = 2
    /\ Done(1) /\ idx[1] = 0 - 1 /\ ret[1] = Ok(written[2])
    /\ Done(2) /\ idx[2] = 2 /\ ret[2].kind = "IndexError"

\* C5 - Reader release: once close() was called on a ready reader (directly
\* or by leaving its with-block), the stream's close was invoked and the
\* reader is closed.
ReaderReleased ==
    rcloseInv > 0 => (rclosed /\ rstreamCloses > 0 /\ rstate = "closed")

\* The file ends strictly inside a record of the writer.
CutMidRecord ==
    /\ truncated
    /\ \A i \in 1..Len(wpositions) : Len(data) # wpositions[i]

\* C6 - Corruption detection: over a stream cut in the middle of a record,
\* construction fails with a corrupt-data error and returns no reader.
CorruptionDetected ==
    (CutMidRecord /\ seekable /\ rstate \notin {"uninit", "scanning"})
        => (rstate = "failed" /\ rerr = "UnpicklingError")

\* C7 - Non-seekable rejection: over a stream whose seekable() is false the
\* constructor fails with ValueError, no seek, tell or read is ever made on
\* the stream, and its cursor and contents are unchanged by the call.
NonSeekableRejected ==
    /\ [](~seekable => ~touched)
    /\ [][(rstate = "uninit" /\ ~seekable /\ rstate' # "uninit")
            => /\ rstate' = "failed"
               /\ rerr' = "ValueError"
               /\ pos' = pos
               /\ data' = data
               /\ touched' = touched]_vars

NonSeekableWitness ==
    /\ ~seekable /\ rstate = "failed" /\ rerr = "ValueError"
    /\ pos = 1 /\ Len(written) = 2 /\ ~touched

\* C8 - Empty stream: a reader over a stream of zero records has len() = 0
\* and every get(i), negative, zero or positive, raises the out-of-range
\* error.
EmptyStream ==
    (rstate = "ready" /\ written = <<>> /\ ~truncated)
        => /\ ReaderLen = 0
           /\ \A t \in Threads :
                  pc[t] = "idle" => ret[t].kind \in {"none", "IndexError"}

EmptyStreamWitness ==
    /\ rstate = "ready" /\ written = <<>> /\ wclosed
    /\ Done(1) /\ idx[1] = 0 /\ ret[1].kind = "IndexError"
    /\ Done(2) /\ idx[2] = 0 - 1 /\ ret[2].kind = "IndexError"

\* C9 - Writer scoped release: leaving the with-block, normally or by an
\* exception, invokes Writer.close() exactly once; every Writer.close()
\* makes exactly one close call on the stream; an exception raised in the
\* block still reaches the caller after the close.
WriterScopedRelease ==
    /\ [](wcloseInv = wstreamCloses)
    /\ [](wscope = "exited" => (wclosed /\ ((wexit = "raised") = wraised)))
    /\ [][(wscope = "in" /\ wscope' = "exited")
            => /\ wcloseInv' = wcloseInv + 1
               /\ wstreamCloses' = wstreamCloses + 1]_vars

\* The block was left by an exception, with unflushed records behind it.
WriterScopedReleaseWitness ==
    /\ wscope = "exited" /\ wraised /\ wexit = "raised"
    /\ wcloseInv = 1 /\ wclosed /\ Len(written) = 2

\* C10 - Monotonic offsets: after a successful construction the offset
\* index is strictly increasing and, when non-empty, starts with 0.
MonotonicOffsets ==
    rstate \in {"ready", "closed"}
        => /\ \A i \in 1..(Len(positions) - 1) : positions[i] < positions[i + 1]
           /\ positions # <<>> => positions[1] = 0

MonotonicOffsetsWitness ==
    /\ rstate = "ready" /\ Len(positions) = 2
    /\ positions[1] = 0 /\ positions[1] < positions[2]

\* C11 - No leaked handle on failed construction: when PickleDataset(reader)
\* fails inside open_pickle_dataset, the file's close has been called by the
\* time the error reaches the caller, and the caller gets the constructor's
\* error even if that close raised.
NoLeakedHandle ==
    /\ herr # "none" => hstate = "raised"
    /\ hstate = "raised"
           => /\ rstreamCloses = 1
              /\ herr = rerr
              /\ herr \in {"ValueError", "UnpicklingError"}
              /\ ~hswallowed => rclosed

\* The scan hit a record cut inside an argument, and the cleanup close raised.
NoLeakedHandleWitness ==
    /\ hstate = "raised" /\ hswallowed
    /\ herr = "UnpicklingError" /\ rstreamCloses = 1

\* C12 - Index immutability: once construction has finished, no step of a
\* get or len call, successful or failing, changes the offset index, the
\* file or the reader's readiness, and no scan starts again; of the stream
\* only the cursor moves.
IndexImmutable ==
    [][rstate = "ready"
          => /\ positions' = positions
             /\ rstate' \notin {"uninit", "scanning", "failed"}
             /\ data' = data
             /\ rclosed' = rclosed
             /\ seekable' = seekable]_vars

\* A successful get, a failing get and a len have run, and the cursor moved.
IndexImmutableWitness ==
    /\ Len(positions) = 2 /\ pos = positions[2]
    /\ Done(1) /\ ret[1].kind = "ok" /\ idx[1] = 0
    /\ Done(2) /\ ret[2].kind = "IndexError"
    /\ lenret.called

\* The bytes written through the writer's stream so far.
WStream == data \o wbuf

\* C13 - Writer offset bookkeeping: a write that returns normally appends
\* exactly one index entry, equal to the stream's end before the call, grows
\* the stream by exactly the record's encoding, and leaves the earlier
\* entries as they were; no step ever changes or removes an entry.
WriterBookkeeping ==
    /\ [][written' # written
            => LET n == Len(wpositions)
                   x == written'[Len(written')]
               IN /\ Len(wpositions') = n + 1
                  /\ SubSeq(wpositions', 1, n) = wpositions
                  /\ wpositions'[n + 1] = Len(data) + Len(wbuf)
                  /\ data' \o wbuf' = (data \o wbuf) \o Dumps(x)]_vars
    /\ [][/\ Len(wpositions') >= Len(wpositions)
          /\ SubSeq(wpositions', 1, Len(wpositions)) = wpositions]_vars

\* Two writes with a flush between them: the second offset counts the
\* flushed and the buffered bytes.
WriterBookkeepingWitness ==
    /\ Len(wpositions) = 2 /\ wpositions[1] = 0 /\ wpositions[2] = Len(data)
    /\ data # <<>> /\ wbuf # <<>>

\* C15 - Failed write leaves the index unchanged: a write that raises
\* (PicklingError, IOError of the stream, ValueError of a closed stream)
\* reports that error and leaves the index as it was; the index length is
\* always the number of writes that returned normally, and every entry is
\* the offset of a completely written record.
FailedWriteKeepsIndex ==
    /\ [][written' = written => wpositions' = wpositions]_vars
    /\ [][wfaults' # wfaults => werr' = "IOError"]_vars
    /\ [](Len(wpositions) = Len(written))
    /\ [](\A i \in 1..Len(wpositions) :
             LET rec == Dumps(written[i])
             IN SubSeq(WStream, wpositions[i] + 1, wpositions[i] + Len(rec))
                    = rec)

\* A write failed with part of its record in the stream, and a later write
\* succeeded behind it.
FailedWriteWitness ==
    /\ wfaults = 1 /\ Len(wpositions) = 2
    /\ Len(WStream) > Len(Dumps(written[1])) + Len(Dumps(written[2]))
    /\ werr = "none"

\* C16 - Writer/Reader index agreement: over a stream that started empty
\* and was built only by successful writes, the index the reader's scan
\* rebuilds equals the writer's index, entry by entry and in length.
IndexAgreement ==
    (rstate \in {"ready", "closed"} /\ ~truncated /\ wfaults = 0)
        => /\ Len(positions) = Len(wpositions)
           /\ \A i \in 1..Len(wpositions) : positions[i] = wpositions[i]

\* Two records of different lengths, written, closed and scanned.
IndexAgreementWitness ==
    /\ rstate = "ready" /\ ~truncated /\ wclosed
    /\ Len(wpositions) = 2 /\ positions = wpositions
    /\ Len(Dumps(written[1])) # Len(Dumps(written[2]))

\* C14 - Lock release on error: a get that raises (IndexError, ValueError
\* of a closed stream, a decode error) has released the lock when it is
\* back at its caller, no finished call holds the lock, and under fair
\* scheduling every caller waiting in get acquires the lock and completes.
LockReleasedOnError ==
    /\ [](\A t \in Threads : pc[t] \in {"idle", "acquire"} => lock # t)
    /\ []((\A t \in Threads : pc[t] = "idle") => lock = 0)
    /\ \A t \in Threads : (pc[t] = "acquire") ~> (pc[t] = "idle")

\* One call failed in the decode, the other in the seek of a closed stream.
LockReleasedWitness ==
    /\ pc[1] = "idle" /\ ret[1].kind \in {"EOFError", "UnpicklingError"}
    /\ pc[2] = "idle" /\ ret[2].kind = "ValueError"
    /\ lock = 0

\* C17 - Scan termination: the index-building loop, once started, ends in
\* the ready state or in a construction error; an iteration that does not
\* end the loop moves the cursor forward and appends one offset, so no
\* offset is recorded twice.
ScanTerminates ==
    /\ (rstate = "scanning") ~> (rstate \in {"ready", "failed"})
    /\ [][(rstate = "scanning" /\ rstate' = "scanning")
            => (pos' > pos /\ positions' = Append(positions, pos))]_vars
    /\ [][(rstate = "scanning" /\ rstate' # "scanning")
            => (rstate' \in {"ready", "failed"} /\ positions' = positions)]_vars
    /\ [](\A i, j \in 1..Len(positions) :
             i # j => positions[i] # positions[j])

\* A scan of two records that ended in a construction error on a cut file.
ScanTerminatesWitness ==
    /\ rstate = "failed" /\ rerr = "UnpicklingError"
    /\ truncated /\ Len(positions) = 1 /\ Len(written) = 2

\* C18 - len() is lock-free: a len() call can run in every state of a ready
\* reader, whoever holds the lock, and it returns the number of records,
\* the same before, during and after any get.
LenLockFree ==
    /\ rstate = "ready" => ENABLED ReaderLenCall
    /\ (lenret.called /\ ~truncated) => lenret.value = Len(written)
    /\ lenret.called => lenret.value = Len(positions)

\* len() returned 2 while a caller of get_example held the lock, about to
\* decode, and the other caller was waiting for it.
LenLockFreeWitness ==
    /\ lenret.called /\ lenret.locked /\ lenret.value = 2
    /\ lock = 1 /\ pc[1] = "load" /\ pc[2] = "acquire"

====
